---- MODULE Spec2Model ----
(***************************************************************************)
(* External-memory line deduplication (src/main.rs).                       *)
(*                                                                         *)
(* Files are sequences of bytes.  A line is a sequence of bytes without    *)
(* the line feed.  The pipeline reads the input with BufRead::lines,       *)
(* sorts and deduplicates chunks into scratch files, and merges the        *)
(* scratch files with a binary heap keyed by the records that              *)
(* BufRead::read_line returns.                                             *)
(***************************************************************************)
EXTENDS Integers, Sequences, FiniteSets, TLC

VARIABLES
    input_file,   \* bytes of the input file
    CHUNK_SIZE,   \* lines per chunk
    output_file,  \* <<>> when the path does not exist, else <<bytes>>
    pc,           \* position of the single thread of control
    pos,          \* number of lines the chunking loop has taken from the reader
    chunk,        \* the chunk buffer
    temp_files,   \* handles (scratch file ids) of the registered runs
    scratch,      \* scratch[id]: bytes written to scratch file id
    exists,       \* ids of the scratch files whose path still exists
    temp_dir,     \* TRUE while the scratch directory exists
    readers,      \* readers[i]: bytes reader i has not read yet
    writer,       \* <<>> before the output is created, else <<buffered bytes>>
    index,        \* loop index of the heap initialisation
    heap,         \* set of <<record, reader index>> entries
    last_line,    \* last record written by the merge
    err,          \* the io::Error raised, "none" when there is none
    result,       \* "none", "Ok", "Err" or "panic"
    exit_code,    \* -1 while the process runs
    stderr        \* what the process printed on standard error

vars == <<input_file, CHUNK_SIZE, output_file, pc, pos, chunk, temp_files,
          scratch, exists, temp_dir, readers, writer, index, heap, last_line,
          err, result, exit_code, stderr>>

\* ---------------------------------------------------------------- bounds
MaxLines == 3

MaxChunkSize == MaxLines + 1

\* ------------------------------------------------------- bytes and lines
LF == 10

CR == 13

\* Line contents the inputs are drawn from: "", "a", "a<TAB>", "b".
LineValues == { <<>>, <<97>>, <<97, 9>>, <<98>> }

\* Line terminators an input file may use.
Terminators == { <<LF>>, <<CR, LF>> }

\* A file that already sits at the output path: "x\n".
StaleOutput == <<120, LF>>

Min(a, b) == IF a < b THEN a ELSE b

\* Ord for String (and Vec<u8>): byte-wise lexicographic, a proper prefix first.
LexLess(a, b) ==
    \E k \in 0..Min(Len(a), Len(b)) :
        /\ \A j \in 1..k : a[j] = b[j]
        /\ \/ k = Len(a) /\ k < Len(b)
           \/ k < Len(a) /\ k < Len(b) /\ a[k + 1] < b[k + 1]

\* Index of the first line feed of s, 0 when there is none.
FirstLF(s) ==
    IF \E i \in 1..Len(s) : s[i] = LF
    THEN CHOOSE i \in 1..Len(s) : s[i] = LF /\ \A j \in 1..(i - 1) : s[j] # LF
    ELSE 0

\* BufRead::read_line: the bytes up to and including the next line feed (all
\* the remaining bytes when there is none), and what is left after them.
read_line(s) ==
    LET n == FirstLF(s) IN
    IF n = 0 THEN [line |-> s, rest |-> <<>>]
    ELSE [line |-> SubSeq(s, 1, n), rest |-> SubSeq(s, n + 1, Len(s))]

\* The item BufRead::lines makes of one read_line record: a final line feed
\* is removed, and then a carriage return in front of it.
StripEol(r) ==
    IF r # <<>> /\ r[Len(r)] = LF
    THEN LET s == SubSeq(r, 1, Len(r) - 1) IN
         IF s # <<>> /\ s[Len(s)] = CR THEN SubSeq(s, 1, Len(s) - 1) ELSE s
    ELSE r

\* BufRead::lines: the lines of a file, in order.
RECURSIVE lines(_)
lines(s) ==
    IF s = <<>> THEN <<>>
    ELSE LET r == read_line(s) IN <<StripEol(r.line)>> \o lines(r.rest)

\* The records repeated read_line calls return until end of file.
RECURSIVE records(_)
records(s) ==
    IF s = <<>> THEN <<>>
    ELSE LET r == read_line(s) IN <<r.line>> \o records(r.rest)

\* writeln!(writer, "{}", line): the line and a line feed.
writeln(line) == line \o <<LF>>

RECURSIVE write_lines(_)
write_lines(ls) ==
    IF ls = <<>> THEN <<>> ELSE writeln(Head(ls)) \o write_lines(Tail(ls))

\* ------------------------------------------------------- chunk processor
RECURSIVE insert_sorted(_, _)
insert_sorted(x, s) ==
    IF s = <<>> THEN <<x>>
    ELSE IF LexLess(x, Head(s)) THEN <<x>> \o s
    ELSE <<Head(s)>> \o insert_sorted(x, Tail(s))

\* lines.sort(): ascending under String's Ord.
RECURSIVE sort(_)
sort(s) == IF s = <<>> THEN <<>> ELSE insert_sorted(Head(s), sort(Tail(s)))

\* lines.dedup(): consecutive equal elements collapse to the first.
RECURSIVE dedup(_)
dedup(s) ==
    IF Len(s) <= 1 THEN s
    ELSE IF s[1] = s[2] THEN dedup(Tail(s))
    ELSE <<Head(s)>> \o dedup(Tail(s))

\* The bytes process_chunk_sequential writes to the scratch file of a chunk.
process_chunk_sequential(c) == write_lines(dedup(sort(c)))

\* `let temp_file = process_chunk_sequential(..)?; temp_files.push(temp_file);`
\* the handle is pushed only when the call returned Ok.
RegisterRunAlways(tf, id, ok) == Append(tf, id)

RegisterRun(tf, id, ok) == IF ok THEN Append(tf, id) ELSE tf

\* ---------------------------------------------------------------- merger
\* Ord of the heap's entries (Reverse<String>, usize): the greater entry has
\* the smaller record; between equal records, the greater index.
HeapGreater(e, f) == LexLess(e[1], f[1]) \/ (e[1] = f[1] /\ e[2] > f[2])

\* BinaryHeap::pop: the greatest entry.
HeapTop(h) == CHOOSE e \in h : \A f \in h \ {e} : HeapGreater(e, f)

\* One iteration of `while let Some(..) = heap.pop()` without I/O failure, on
\* the merge state m = [readers, heap, last_line, writer].
MergeIteration(m) ==
    LET e == HeapTop(m.heap)
        line == e[1]
        i == e[2]
        r == read_line(m.readers[i + 1])
        h == m.heap \ {e}
    IN  [readers |-> [m.readers EXCEPT ![i + 1] = r.rest],
         heap |-> IF Len(r.line) > 0 THEN h \cup {<<r.line, i>>} ELSE h,
         last_line |-> IF line # m.last_line THEN line ELSE m.last_line,
         writer |-> IF line # m.last_line
                    THEN m.writer \o writeln(line) ELSE m.writer]

\* ---------------------------------------------------------------- inputs
LineSeqs == UNION { [1..n -> LineValues] : n \in 0..MaxLines }

RECURSIVE join_lines(_, _)
join_lines(ls, t) ==
    IF ls = <<>> THEN <<>> ELSE Head(ls) \o t \o join_lines(Tail(ls), t)

\* The same file without the terminator of its last line.
Unterminated(f) == IF f = <<>> THEN f ELSE SubSeq(f, 1, Len(f) - 1)

InputFiles ==
    { join_lines(ls, t) : ls \in LineSeqs, t \in Terminators }
        \cup { Unterminated(join_lines(ls, <<LF>>)) : ls \in LineSeqs }

Init ==
    /\ input_file \in InputFiles
    /\ CHUNK_SIZE \in 1..MaxChunkSize
    /\ output_file \in { <<>>, <<StaleOutput>> }
    /\ pc = "start"
    /\ pos = 0
    /\ chunk = <<>>
    /\ temp_files = <<>>
    /\ scratch = <<>>
    /\ exists = {}
    /\ temp_dir = FALSE
    /\ readers = <<>>
    /\ writer = <<>>
    /\ index = 0
    /\ heap = {}
    /\ last_line = <<>>
    /\ err = "none"
    /\ result = "none"
    /\ exit_code = -1
    /\ stderr = ""

\* `?` on an Err: the function returns the error to its caller.
Raise(e) ==
    /\ err' = e
    /\ pc' = "return_err"

\* ------------------------------------------- remove_duplicates_large_file
\* Lines 43-70: the counting pass, the second open of the input, the scratch
\* directory, and the empty state of the chunking loop.
Setup ==
    /\ pc = "start"
    /\ pc' = "read"
    /\ temp_dir' = TRUE
    /\ pos' = 0
    /\ chunk' = <<>>
    /\ temp_files' = <<>>
    /\ UNCHANGED <<input_file, CHUNK_SIZE, output_file, scratch, exists,
                   readers, writer, index, heap, last_line, err, result,
                   exit_code, stderr>>

\* File::open(input_path)? fails (line 43 or 50).
SetupOpenFails ==
    /\ pc = "start"
    /\ Raise("open_input")
    /\ UNCHANGED <<input_file, CHUNK_SIZE, output_file, pos, chunk,
                   temp_files, scratch, exists, temp_dir, readers, writer,
                   index, heap, last_line, result, exit_code, stderr>>

\* tempfile::tempdir()? fails (line 67).
SetupTempDirFails ==
    /\ pc = "start"
    /\ Raise("tempdir")
    /\ UNCHANGED <<input_file, CHUNK_SIZE, output_file, pos, chunk,
                   temp_files, scratch, exists, temp_dir, readers, writer,
                   index, heap, last_line, result, exit_code, stderr>>

\* Lines 73-85, a line that does not fill the chunk.
ReadLine ==
    /\ pc = "read"
    /\ pos < Len(lines(input_file))
    /\ Len(chunk) + 1 < CHUNK_SIZE
    /\ chunk' = Append(chunk, lines(input_file)[pos + 1])
    /\ pos' = pos + 1
    /\ UNCHANGED <<input_file, CHUNK_SIZE, output_file, pc, temp_files,
                   scratch, exists, temp_dir, readers, writer, index, heap,
                   last_line, err, result, exit_code, stderr>>

\* Line 74: `line_result?` on a read error.
ReadLineFails ==
    /\ pc = "read"
    /\ pos < Len(lines(input_file))
    /\ Raise("read_input")
    /\ UNCHANGED <<input_file, CHUNK_SIZE, output_file, pos, chunk,
                   temp_files, scratch, exists, temp_dir, readers, writer,
                   index, heap, last_line, result, exit_code, stderr>>

\* Lines 73-84, the line that fills the chunk: the chunk is written to a new
\* scratch file, its handle is pushed and the chunk is cleared.
ReadLineFlush ==
    /\ pc = "read"
    /\ pos < Len(lines(input_file))
    /\ Len(chunk) + 1 >= CHUNK_SIZE
    /\ LET full == Append(chunk, lines(input_file)[pos + 1])
           id == Len(scratch) + 1
       IN  /\ scratch' = Append(scratch, process_chunk_sequential(full))
           /\ exists' = exists \cup {id}
           /\ temp_files' = RegisterRun(temp_files, id, TRUE)
    /\ chunk' = <<>>
    /\ pos' = pos + 1
    /\ UNCHANGED <<input_file, CHUNK_SIZE, output_file, pc, temp_dir,
                   readers, writer, index, heap, last_line, err, result,
                   exit_code, stderr>>

\* Lines 73-79, process_chunk_sequential returns Err: the scratch file could
\* not be created, or a write or the flush failed and the NamedTempFile was
\* dropped (which removes the partly written file) on the way out.
ReadLineFlushFails ==
    /\ pc = "read"
    /\ pos < Len(lines(input_file))
    /\ Len(chunk) + 1 >= CHUNK_SIZE
    /\ chunk' = Append(chunk, lines(input_file)[pos + 1])
    /\ pos' = pos + 1
    /\ temp_files' = RegisterRun(temp_files, Len(scratch) + 1, FALSE)
    /\ Raise("process_chunk")
    /\ UNCHANGED <<input_file, CHUNK_SIZE, output_file, scratch, exists,
                   temp_dir, readers, writer, index, heap, last_line, result,
                   exit_code, stderr>>

\* Lines 88-107: the input is exhausted; a non-empty remainder becomes the
\* last run; merge_sorted_files is called.
LastChunk ==
    /\ pc = "read"
    /\ pos = Len(lines(input_file))
    /\ IF chunk # <<>>
       THEN LET id == Len(scratch) + 1 IN
            /\ scratch' = Append(scratch, process_chunk_sequential(chunk))
            /\ exists' = exists \cup {id}
            /\ temp_files' = RegisterRun(temp_files, id, TRUE)
       ELSE UNCHANGED <<scratch, exists, temp_files>>
    /\ pc' = "open_readers"
    /\ UNCHANGED <<input_file, CHUNK_SIZE, output_file, pos, chunk, temp_dir,
                   readers, writer, index, heap, last_line, err, result,
                   exit_code, stderr>>

\* Line 89: process_chunk_sequential returns Err for the remainder.
LastChunkFails ==
    /\ pc = "read"
    /\ pos = Len(lines(input_file))
    /\ chunk # <<>>
    /\ temp_files' = RegisterRun(temp_files, Len(scratch) + 1, FALSE)
    /\ Raise("process_chunk")
    /\ UNCHANGED <<input_file, CHUNK_SIZE, output_file, pos, chunk, scratch,
                   exists, temp_dir, readers, writer, index, heap, last_line,
                   result, exit_code, stderr>>

\* ----------------------------------------------------- merge_sorted_files
\* Lines 138-141, one element of the iterator: the scratch file is opened by
\* its path, and the NamedTempFile, which the closure owns, is dropped when
\* the closure returns; dropping it removes the file from the directory.  The
\* open descriptor keeps the contents readable.
OpenReader ==
    /\ pc = "open_readers"
    /\ Len(readers) < Len(temp_files)
    /\ LET id == temp_files[Len(readers) + 1] IN
       /\ id \in exists
       /\ readers' = Append(readers, scratch[id])
       /\ exists' = exists \ {id}
    /\ UNCHANGED <<input_file, CHUNK_SIZE, output_file, pc, pos, chunk,
                   temp_files, scratch, temp_dir, writer, index, heap,
                   last_line, err, result, exit_code, stderr>>

\* Line 140: File::open returns Err and unwrap() panics.
OpenReaderFails ==
    /\ pc = "open_readers"
    /\ Len(readers) < Len(temp_files)
    /\ err' = "open_run"
    /\ pc' = "panic"
    /\ UNCHANGED <<input_file, CHUNK_SIZE, output_file, pos, chunk,
                   temp_files, scratch, exists, temp_dir, readers, writer,
                   index, heap, last_line, result, exit_code, stderr>>

\* Lines 144-150: the output file is created (truncated when it exists), and
\* the writer and the heap start empty.
CreateOutput ==
    /\ pc = "open_readers"
    /\ Len(readers) = Len(temp_files)
    /\ output_file' = << <<>> >>
    /\ writer' = << <<>> >>
    /\ heap' = {}
    /\ index' = 0
    /\ pc' = "heap_init"
    /\ UNCHANGED <<input_file, CHUNK_SIZE, pos, chunk, temp_files, scratch,
                   exists, temp_dir, readers, last_line, err, result,
                   exit_code, stderr>>

\* Line 144: File::create(output_path)? fails.
CreateOutputFails ==
    /\ pc = "open_readers"
    /\ Len(readers) = Len(temp_files)
    /\ Raise("create_output")
    /\ UNCHANGED <<input_file, CHUNK_SIZE, output_file, pos, chunk,
                   temp_files, scratch, exists, temp_dir, readers, writer,
                   index, heap, last_line, result, exit_code, stderr>>

\* Lines 153-158, one reader: its first record goes to the heap.
HeapInit ==
    /\ pc = "heap_init"
    /\ index < Len(readers)
    /\ LET r == read_line(readers[index + 1]) IN
       /\ readers' = [readers EXCEPT ![index + 1] = r.rest]
       /\ heap' = IF Len(r.line) > 0 THEN heap \cup {<<r.line, index>>}
                  ELSE heap
    /\ index' = index + 1
    /\ UNCHANGED <<input_file, CHUNK_SIZE, output_file, pc, pos, chunk,
                   temp_files, scratch, exists, temp_dir, writer, last_line,
                   err, result, exit_code, stderr>>

\* Line 155: read_line(..)? fails.
HeapInitFails ==
    /\ pc = "heap_init"
    /\ index < Len(readers)
    /\ Raise("read_run")
    /\ UNCHANGED <<input_file, CHUNK_SIZE, output_file, pos, chunk,
                   temp_files, scratch, exists, temp_dir, readers, writer,
                   index, heap, last_line, result, exit_code, stderr>>

\* Line 161: last_line starts empty and the merge loop is entered.
StartMerge ==
    /\ pc = "heap_init"
    /\ index = Len(readers)
    /\ last_line' = <<>>
    /\ pc' = "merge"
    /\ UNCHANGED <<input_file, CHUNK_SIZE, output_file, pos, chunk,
                   temp_files, scratch, exists, temp_dir, readers, writer,
                   index, heap, err, result, exit_code, stderr>>

MergeState ==
    [readers |-> readers, heap |-> heap, last_line |-> last_line,
     writer |-> writer[1]]

\* Lines 164-176, one iteration.
MergeStep ==
    /\ pc = "merge"
    /\ heap # {}
    /\ LET m == MergeIteration(MergeState) IN
       /\ readers' = m.readers
       /\ heap' = m.heap
       /\ last_line' = m.last_line
       /\ writer' = <<m.writer>>
    /\ UNCHANGED <<input_file, CHUNK_SIZE, output_file, pc, pos, chunk,
                   temp_files, scratch, exists, temp_dir, index, err, result,
                   exit_code, stderr>>

\* Line 167: writeln!(..)? fails after the pop.
MergeWriteFails ==
    /\ pc = "merge"
    /\ heap # {}
    /\ HeapTop(heap)[1] # last_line
    /\ heap' = heap \ {HeapTop(heap)}
    /\ Raise("write_output")
    /\ UNCHANGED <<input_file, CHUNK_SIZE, output_file, pos, chunk,
                   temp_files, scratch, exists, temp_dir, readers, writer,
                   index, last_line, result, exit_code, stderr>>

\* Line 173: read_line(..)? fails after the pop and the write.
MergeReadFails ==
    /\ pc = "merge"
    /\ heap # {}
    /\ LET m == MergeIteration(MergeState) IN
       /\ last_line' = m.last_line
       /\ writer' = <<m.writer>>
    /\ heap' = heap \ {HeapTop(heap)}
    /\ Raise("read_run")
    /\ UNCHANGED <<input_file, CHUNK_SIZE, output_file, pos, chunk,
                   temp_files, scratch, exists, temp_dir, readers, index,
                   result, exit_code, stderr>>

\* Lines 164 and 179-180: the heap is empty, the writer is flushed and
\* merge_sorted_files returns Ok.
Flush ==
    /\ pc = "merge"
    /\ heap = {}
    /\ output_file' = <<output_file[1] \o writer[1]>>
    /\ writer' = << <<>> >>
    /\ pc' = "return_ok"
    /\ UNCHANGED <<input_file, CHUNK_SIZE, pos, chunk, temp_files, scratch,
                   exists, temp_dir, readers, index, heap, last_line, err,
                   result, exit_code, stderr>>

\* Line 179: writer.flush()? fails.
FlushFails ==
    /\ pc = "merge"
    /\ heap = {}
    /\ Raise("flush_output")
    /\ UNCHANGED <<input_file, CHUNK_SIZE, output_file, pos, chunk,
                   temp_files, scratch, exists, temp_dir, readers, writer,
                   index, heap, last_line, result, exit_code, stderr>>

\* ------------------------------------------------------------------ main
\* Dropping the locals of both functions: the readers are closed, the
\* remaining NamedTempFiles and the scratch directory are removed.
DropLocals ==
    /\ readers' = <<>>
    /\ temp_files' = <<>>
    /\ exists' = {}
    /\ temp_dir' = FALSE

\* Lines 108-110 and 187-191: Ok(()) reaches main, main returns, exit code 0.
ReturnOk ==
    /\ pc = "return_ok"
    /\ DropLocals
    /\ writer' = <<>>
    /\ result' = "Ok"
    /\ exit_code' = 0
    /\ pc' = "exit"
    /\ UNCHANGED <<input_file, CHUNK_SIZE, output_file, pos, chunk, scratch,
                   index, heap, last_line, err, stderr>>

\* Lines 187-190: the Err reaches main, which prints it and exits with 1.  A
\* BufWriter that is dropped with buffered bytes tries to write them and
\* ignores a failure.
ReturnErr ==
    /\ pc = "return_err"
    /\ DropLocals
    /\ \E flushed \in BOOLEAN :
          output_file' = IF writer # <<>> /\ flushed
                         THEN <<output_file[1] \o writer[1]>>
                         ELSE output_file
    /\ writer' = <<>>
    /\ result' = "Err"
    /\ stderr' = "Error: " \o err
    /\ exit_code' = 1
    /\ pc' = "exit"
    /\ UNCHANGED <<input_file, CHUNK_SIZE, pos, chunk, scratch, index, heap,
                   last_line, err>>

\* The panic of line 140 unwinds: the locals are dropped, the panic message
\* is printed and the process ends with the exit code of a panic, 101.
Panic ==
    /\ pc = "panic"
    /\ DropLocals
    /\ result' = "panic"
    /\ stderr' = "panicked: " \o err
    /\ exit_code' = 101
    /\ pc' = "exit"
    /\ UNCHANGED <<input_file, CHUNK_SIZE, output_file, pos, chunk, scratch,
                   writer, index, heap, last_line, err>>

Next ==
    \/ Setup \/ SetupOpenFails \/ SetupTempDirFails
    \/ ReadLine \/ ReadLineFails \/ ReadLineFlush \/ ReadLineFlushFails
    \/ LastChunk \/ LastChunkFails
    \/ OpenReader \/ OpenReaderFails \/ CreateOutput \/ CreateOutputFails
    \/ HeapInit \/ HeapInitFails \/ StartMerge
    \/ MergeStep \/ MergeWriteFails \/ MergeReadFails \/ Flush \/ FlushFails
    \/ ReturnOk \/ ReturnErr \/ Panic

Spec == Init /\ [][Next]_vars

\* ------------------------------------------ the pipeline as one function
\* Lines 73-91 without failure: the scratch files of the successive chunks.
RECURSIVE chunk_runs(_, _)
chunk_runs(ls, cs) ==
    IF ls = <<>> THEN <<>>
    ELSE LET n == Min(cs, Len(ls)) IN
         <<process_chunk_sequential(SubSeq(ls, 1, n))>>
             \o chunk_runs(SubSeq(ls, n + 1, Len(ls)), cs)

\* Lines 153-158 without failure, from reader i + 1 on.
RECURSIVE heap_init(_, _)
heap_init(m, i) ==
    IF i >= Len(m.readers) THEN m
    ELSE LET r == read_line(m.readers[i + 1]) IN
         heap_init([m EXCEPT !.readers[i + 1] = r.rest,
                             !.heap = IF Len(r.line) > 0
                                      THEN m.heap \cup {<<r.line, i>>}
                                      ELSE m.heap],
                   i + 1)

\* Lines 164-176 without failure: the bytes written when the heap is empty.
RECURSIVE merge_loop(_)
merge_loop(m) ==
    IF m.heap = {} THEN m.writer ELSE merge_loop(MergeIteration(m))

\* merge_sorted_files without failure: the bytes of the output file.
merge_sorted_files(runs) ==
    merge_loop(heap_init([readers |-> runs, heap |-> {}, last_line |-> <<>>,
                          writer |-> <<>>], 0))

\* remove_duplicates_large_file without failure, with chunk size cs.
remove_duplicates_large_file(file, cs) ==
    merge_sorted_files(chunk_runs(lines(file), cs))

\* The steps above and the function compute the same output file.
StepsAgreeWithFunction ==
    result = "Ok" =>
        output_file = <<remove_duplicates_large_file(input_file, CHUNK_SIZE)>>

\* ------------------------------------------------------------ properties
Range(s) == { s[i] : i \in 1..Len(s) }

StrictlyIncreasing(s) == \A i \in 1..(Len(s) - 1) : LexLess(s[i], s[i + 1])

InputLines == lines(input_file)

\* The lines of the output file, as BufRead::lines reads them back.
OutputLines == lines(output_file[1])

\* C1: when the pipeline returns Ok, the lines of the output file are
\* strictly increasing: sorted ascending, and no value twice.
C1_OutputStrictlyIncreasing ==
    result = "Ok" => StrictlyIncreasing(OutputLines)

\* C2: when the pipeline returns Ok, the set of lines of the output file is
\* the set of lines of the input file: nothing lost, nothing invented.
C2_SameDistinctLines ==
    result = "Ok" => Range(OutputLines) = Range(InputLines)

\* C3: when merge_sorted_files was given exactly one run, the lines of the
\* output file are the lines of that run, in the same order.
C3_SingleRunCopied ==
    (pc = "return_ok" /\ Len(temp_files) = 1) =>
        OutputLines = lines(scratch[temp_files[1]])

\* C4: for an input of N lines, the chunk sizes 1, 2, N and N + 1 all give
\* the output the pipeline has produced.
C4_CapacityInvariance ==
    result = "Ok" =>
        \A cs \in ({1, 2, Len(InputLines), Len(InputLines) + 1} \ {0}) :
            lines(remove_duplicates_large_file(input_file, cs)) = OutputLines

\* C5: when the lines of the input file are strictly increasing, the output
\* file has the same lines in the same order.
C5_Idempotence ==
    (result = "Ok" /\ StrictlyIncreasing(InputLines)) =>
        OutputLines = InputLines

\* C6: a run that cannot be opened or read makes the process print an error
\* message and exit with code 1, through an Err that reaches main.
C6_RunFailureExitsWithCode1 ==
    (pc = "exit" /\ err \in {"open_run", "read_run"}) =>
        (result = "Err" /\ exit_code = 1 /\ stderr = "Error: " \o err)

\* C7: every scratch file exists from its creation until the merge phase
\* has ended, and none exists after the process has ended.
C7_ScratchKeptUntilMergeEnds ==
    /\ pc \in {"read", "open_readers", "heap_init", "merge"} =>
           \A id \in DOMAIN scratch : id \in exists
    /\ pc = "exit" => exists = {}

\* The lines of chunk number i of the input.
ChunkOf(i) ==
    SubSeq(InputLines, (i - 1) * CHUNK_SIZE + 1,
           Min(i * CHUNK_SIZE, Len(InputLines)))

\* C8: during the chunking loop temp_files holds exactly one handle per
\* chunk whose run was written completely, in chunk order; when
\* process_chunk_sequential fails no handle is added, the pipeline ends with
\* that error and exit code 1, and the merge never starts, so the output
\* path is left as it was.
C8_HandlesMatchFlushedRuns ==
    /\ (pc = "read" \/ (pc = "return_err" /\ err \in {"read_input", "process_chunk"})) =>
           /\ Len(temp_files) * CHUNK_SIZE + Len(chunk) = pos
           /\ \A i \in 1..Len(temp_files) :
                  /\ temp_files[i] = i
                  /\ i \in exists
                  /\ i \in DOMAIN scratch
                  /\ scratch[i] = process_chunk_sequential(ChunkOf(i))
    /\ err = "process_chunk" =>
           /\ pc \in {"return_err", "exit"}
           /\ readers = <<>>
           /\ writer = <<>>
           /\ heap = {}
           /\ output_file \in { <<>>, <<StaleOutput>> }
           /\ pc = "exit" =>
                  (result = "Err" /\ exit_code = 1
                       /\ stderr = "Error: process_chunk")

\* A chunk fails after an earlier run was registered, with a file at the
\* output path.
C8_Witness ==
    /\ pc = "return_err"
    /\ err = "process_chunk"
    /\ Len(temp_files) >= 1
    /\ output_file = <<StaleOutput>>

\* The records of run number i (reader index i - 1), and how many of them
\* the merge has popped.
RunRecords(i) == records(scratch[temp_files[i]])

InHeap(i) == \E e \in heap : e[2] = i - 1

Consumed(i) ==
    Len(RunRecords(i)) - Len(records(readers[i])) - (IF InHeap(i) THEN 1 ELSE 0)

\* C9: at the start of every iteration of the merge loop the heap holds, for
\* each run with unconsumed lines, exactly its earliest unconsumed line, and
\* nothing for an exhausted run; the entry popped is the least, under the
\* heap's comparison, of all unconsumed lines of all runs; and the loop ends
\* with every run consumed.
C9_MergeFrontier ==
    /\ pc = "merge" =>
           /\ \A i \in 1..Len(readers) :
                  /\ (Consumed(i) < Len(RunRecords(i))) <=> InHeap(i)
                  /\ \A e \in heap :
                         e[2] = i - 1 => e[1] = RunRecords(i)[Consumed(i) + 1]
           /\ \A e, f \in heap : e[2] = f[2] => e = f
           /\ heap # {} =>
                  \A i \in 1..Len(readers) :
                      \A j \in (Consumed(i) + 1)..Len(RunRecords(i)) :
                          ~LexLess(RunRecords(i)[j], HeapTop(heap)[1])
    /\ pc = "return_ok" =>
           \A i \in 1..Len(readers) : Consumed(i) = Len(RunRecords(i))

\* The key the merge holds for a line: the record read_line returns for what
\* writeln wrote.
MergeKey(a) == read_line(writeln(a)).line

\* C10: the merge orders the keys of two distinct lines as sort() orders the
\* lines, so every run is strictly increasing under the merge's comparison.
C10_MergeOrderAgreesWithSort ==
    /\ \A a, b \in Range(SubSeq(InputLines, 1, pos)) :
           a # b => (LexLess(a, b)
                        <=> HeapGreater(<<MergeKey(a), 0>>, <<MergeKey(b), 0>>))
    /\ \A id \in DOMAIN scratch : StrictlyIncreasing(records(scratch[id]))

====
